---- MODULE Spec2Model ----
(***************************************************************************)
(* Model of clippy_lints/src/wildcard_imports.rs: the WildcardImports late *)
(* lint pass.  The lint visitor calls check_item when it enters an item    *)
(* and check_item_post when it leaves it, depth first; the pass keeps a    *)
(* flag and a counter across the calls and hands diagnostics to            *)
(* span_lint_and_sugg.                                                     *)
(***************************************************************************)
EXTENDS Integers, Sequences, FiniteSets, TLC

VARIABLES warn_on_all, is_test_module_flag, test_modules_deep, stack, last

vars == <<warn_on_all, is_test_module_flag, test_modules_deep, stack, last>>

(* ---------------- bounds of the model ---------------- *)

\* longest chain of items that are open at once (visitor's nesting)
MaxNest == 2
\* cap on the counter test_modules_deep (it is unbounded in the code)
MaxDeep == 2
\* longest use path, in segments
MaxSegs == 2

(* ---------------- inputs ---------------- *)

\* identifiers are sequences of characters
Idents == { <<"t","e","s","t","s">>, <<"l","a","t","e","s","t">>, <<"t","s","e","t">> }
\* a glob use item has the empty identifier
NoIdent == << >>
\* identifiers of the modules
ModIdents == { <<"t","e","s","t","s">>, <<"t","s","e","t">> }
TestStr == <<"t","e","s","t">>

Visibilities == {"Public", "Restricted", "Inherited"}

SegIdents == {"super", "prelude", "a"}
\* the helpers read the first segment, the last segment and the length: the
\* segments in between are fixed
Paths ==
  { p \in UNION { [1..n -> SegIdents] : n \in 1..MaxSegs } :
      \A i \in 2..(Len(p) - 1) : p[i] = "a" }

\* use_path.res: Res::Def(kind, _) or Res::Err
Resolutions == { [tag |-> "Def", kind |-> "Enum"],
                 [tag |-> "Def", kind |-> "Mod"],
                 [tag |-> "Err", kind |-> "None"] }
NoRes == [tag |-> "Err", kind |-> "None"]

\* resolved-name sets: empty, one name, several names
NameSets == { {}, {"foo"}, {"bar", "foo"} }

\* items that own other items, which the visitor walks between the two hooks
ModItems ==
  [ kind : {"Mod"}, ident : ModIdents, vis : Visibilities, in_macro : BOOLEAN,
    segments : {<< >>}, res : {NoRes}, used_imports : {{}} ]

\* `use path::name;`: the identifier is the imported name
UseSingleItems ==
  [ kind : {"UseSingle"}, ident : Idents, vis : Visibilities, in_macro : BOOLEAN,
    segments : {<<"a">>, <<"super">>}, res : {[tag |-> "Def", kind |-> "Mod"]},
    used_imports : {{}, {"bar"}} ]

\* `use path::*;`
UseGlobItems ==
  [ kind : {"UseGlob"}, ident : {NoIdent}, vis : Visibilities, in_macro : BOOLEAN,
    segments : Paths, res : Resolutions, used_imports : NameSets ]

Items == ModItems \cup UseSingleItems \cup UseGlobItems

\* check_item_post ignores its item argument; its record carries none
NoItem ==
  [ kind |-> "None", ident |-> NoIdent, vis |-> "Inherited", in_macro |-> FALSE,
    segments |-> << >>, res |-> NoRes, used_imports |-> {} ]

\* what the visitor keeps of an open item
Frame(item) == [ kind |-> item.kind, ident |-> item.ident, vis |-> item.vis ]

(* ---------------- helpers of the pass ---------------- *)

\* str::contains on character sequences
Contains(s, pat) ==
  \E i \in 1..(Len(s) - Len(pat) + 1) : SubSeq(s, i, i + Len(pat) - 1) = pat

is_pub(vis) == vis = "Public"

is_pub_restricted(vis) == vis = "Restricted"

\* variant: str::starts_with instead of str::contains
is_test_module_prefix(item) ==
  Len(item.ident) >= Len(TestStr) /\ SubSeq(item.ident, 1, Len(TestStr)) = TestStr

is_test_module(item) == Contains(item.ident, TestStr)

\* variant: looks at the first segment instead of the last
is_prelude_import_first(segments) ==
  IF Len(segments) = 0 THEN FALSE ELSE segments[1] = "prelude"

is_prelude_import(segments) ==
  IF Len(segments) = 0 THEN FALSE ELSE segments[Len(segments)] = "prelude"

\* variant: any path that starts with `super`
is_super_only_import_prefix(segments) ==
  Len(segments) >= 1 /\ segments[1] = "super"

is_super_only_import(segments) ==
  Len(segments) = 1 /\ segments[1] = "super"

check_exceptions(deep, segments) ==
  is_prelude_import(segments) \/ (is_super_only_import(segments) /\ deep > 0)

\* variant: only `pub` returns early
SkipsItem_pub_only(item) == is_pub(item.vis)

\* the early return of check_item
SkipsItem(item) == is_pub(item.vis) \/ is_pub_restricted(item.vis)

\* variant: the counter is not incremented
DeepAfterEnter_no_increment(item, deep) == deep

\* variant: the tracker update sits behind the in_macro test
DeepAfterEnter_after_macro_check(item, deep) ==
  IF is_test_module(item) /\ ~item.in_macro THEN deep + 1 ELSE deep

\* the tracker after the `if is_test_module(item)` block
DeepAfterEnter(item, deep) ==
  IF is_test_module(item) THEN deep + 1 ELSE deep

FlagAfterEnter(item, flag) ==
  IF is_test_module(item) THEN TRUE ELSE flag

\* variant: any use item, glob or not
ChainHolds_any_use(item, warn, deep) ==
  /\ ~item.in_macro
  /\ item.kind \in {"UseGlob", "UseSingle"}
  /\ (warn \/ ~check_exceptions(deep, item.segments))
  /\ item.used_imports # {}

\* variant: the exceptions are consulted even when warn_on_all is set
ChainHolds_always_exceptions(item, warn, deep) ==
  /\ ~item.in_macro
  /\ item.kind = "UseGlob"
  /\ ~check_exceptions(deep, item.segments)
  /\ item.used_imports # {}

\* variant: the emptiness test of used_imports is missing
ChainHolds_no_empty_check(item, warn, deep) ==
  /\ ~item.in_macro
  /\ item.kind = "UseGlob"
  /\ (warn \/ ~check_exceptions(deep, item.segments))

\* variant: the in_macro test is missing
ChainHolds_no_macro_check(item, warn, deep) ==
  /\ item.kind = "UseGlob"
  /\ (warn \/ ~check_exceptions(deep, item.segments))
  /\ item.used_imports # {}

\* the conditions of the if_chain
ChainHolds(item, warn, deep) ==
  /\ ~item.in_macro
  /\ item.kind = "UseGlob"
  /\ (warn \/ ~check_exceptions(deep, item.segments))
  /\ item.used_imports # {}

\* variant: every definition (not only enums) selects ENUM_GLOB_USE
LintFor_any_def(res) ==
  IF res.tag = "Def"
    THEN [lint |-> "ENUM_GLOB_USE", message |-> "usage of wildcard import for enum variants"]
    ELSE [lint |-> "WILDCARD_IMPORTS", message |-> "usage of wildcard import"]

\* variant: the decrement is not guarded by the flag
DeepAfterLeave_unguarded(flag, deep) == deep - 1

\* the counter after check_item_post
DeepAfterLeave(flag, deep) ==
  IF flag THEN deep - 1 ELSE deep

\* variant: the flag is left set
FlagAfterLeave_kept(flag) == flag

\* the flag after check_item_post
FlagAfterLeave(flag) ==
  IF flag THEN FALSE ELSE flag

\* the (lint, message) pair
LintFor(res) ==
  IF res.tag = "Def" /\ res.kind = "Enum"
    THEN [lint |-> "ENUM_GLOB_USE", message |-> "usage of wildcard import for enum variants"]
    ELSE [lint |-> "WILDCARD_IMPORTS", message |-> "usage of wildcard import"]

\* the diagnostics one check_item call hands to span_lint_and_sugg
DiagsOfEnter(item, warn, deep) ==
  IF SkipsItem(item) THEN << >>
  ELSE IF ChainHolds(item, warn, DeepAfterEnter(item, deep))
    THEN << LintFor(item.res) >>
    ELSE << >>

(* ---------------- state machine ---------------- *)

Init ==
  /\ warn_on_all \in BOOLEAN
  /\ is_test_module_flag = FALSE
  /\ test_modules_deep = 0
  /\ stack = << >>
  /\ last = [hook |-> "none", item |-> NoItem, pre_deep |-> 0, pre_flag |-> FALSE,
             diags |-> << >>]

\* the visitor may enter an item at top level or inside an open module
CanEnter ==
  /\ Len(stack) < MaxNest
  /\ stack # << >> => stack[Len(stack)].kind = "Mod"

check_item(item) ==
  /\ CanEnter
  /\ SkipsItem(item) \/ DeepAfterEnter(item, test_modules_deep) <= MaxDeep
  /\ IF SkipsItem(item)
       THEN UNCHANGED <<is_test_module_flag, test_modules_deep>>
       ELSE /\ is_test_module_flag' = FlagAfterEnter(item, is_test_module_flag)
            /\ test_modules_deep' = DeepAfterEnter(item, test_modules_deep)
  /\ last' = [hook |-> "check_item", item |-> item,
              pre_deep |-> test_modules_deep, pre_flag |-> is_test_module_flag,
              diags |-> DiagsOfEnter(item, warn_on_all, test_modules_deep)]
  /\ stack' = Append(stack, Frame(item))
  /\ UNCHANGED warn_on_all

check_item_post ==
  /\ stack # << >>
  /\ is_test_module_flag' = FlagAfterLeave(is_test_module_flag)
  /\ test_modules_deep' = DeepAfterLeave(is_test_module_flag, test_modules_deep)
  /\ last' = [hook |-> "check_item_post", item |-> NoItem,
              pre_deep |-> test_modules_deep, pre_flag |-> is_test_module_flag,
              diags |-> << >>]
  /\ stack' = SubSeq(stack, 1, Len(stack) - 1)
  /\ UNCHANGED warn_on_all

Next ==
  \/ \E item \in Items : check_item(item)
  \/ check_item_post

Spec == Init /\ [][Next]_vars

TypeOK ==
  /\ warn_on_all \in BOOLEAN
  /\ is_test_module_flag \in BOOLEAN
  /\ test_modules_deep \in 0..MaxDeep
  /\ Len(stack) <= MaxNest
  /\ last.hook \in {"none", "check_item", "check_item_post"}

(* ---------------- the hooks in any order ---------------- *)

\* the items of the unpaired calls: every module and single use, and the
\* glob uses of a one-segment path to a module
HookItems ==
  ModItems \cup UseSingleItems \cup
  { g \in UseGlobItems : Len(g.segments) = 1 /\ g.res = [tag |-> "Def", kind |-> "Mod"] }

\* check_item called without regard to the pairing of the two hooks
any_check_item(item) ==
  /\ SkipsItem(item) \/ DeepAfterEnter(item, test_modules_deep) <= MaxDeep
  /\ IF SkipsItem(item)
       THEN UNCHANGED <<is_test_module_flag, test_modules_deep>>
       ELSE /\ is_test_module_flag' = FlagAfterEnter(item, is_test_module_flag)
            /\ test_modules_deep' = DeepAfterEnter(item, test_modules_deep)
  /\ last' = [hook |-> "check_item", item |-> item,
              pre_deep |-> test_modules_deep, pre_flag |-> is_test_module_flag,
              diags |-> DiagsOfEnter(item, warn_on_all, test_modules_deep)]
  /\ UNCHANGED <<warn_on_all, stack>>

\* check_item_post called without regard to the pairing
any_check_item_post ==
  /\ is_test_module_flag' = FlagAfterLeave(is_test_module_flag)
  /\ test_modules_deep' = DeepAfterLeave(is_test_module_flag, test_modules_deep)
  /\ last' = [hook |-> "check_item_post", item |-> NoItem,
              pre_deep |-> test_modules_deep, pre_flag |-> is_test_module_flag,
              diags |-> << >>]
  /\ UNCHANGED <<warn_on_all, stack>>

NextAny ==
  \/ \E item \in HookItems : any_check_item(item)
  \/ any_check_item_post

SpecAny == Init /\ [][NextAny]_vars

(* ---------------- the emitted suggestion ---------------- *)

\* longest iteration of used_imports
MaxNames == 3

\* text is a sequence of characters; a span is lo..hi in bytes from the start
\* of the file, hi excluded
SourceCases ==
  { \* use a::*;
    [ text |-> <<"u","s","e"," ","a",":",":","*",";">>,
      item_lo |-> 0, item_hi |-> 9, path_lo |-> 4, path_hi |-> 5,
      segments |-> <<"a">> ],
    \* use a::b::*;
    [ text |-> <<"u","s","e"," ","a",":",":","b",":",":","*",";">>,
      item_lo |-> 0, item_hi |-> 12, path_lo |-> 4, path_hi |-> 8,
      segments |-> <<"a", "b">> ],
    \* use a ::  *;
    [ text |-> <<"u","s","e"," ","a"," ",":",":"," "," ","*",";">>,
      item_lo |-> 0, item_hi |-> 12, path_lo |-> 4, path_hi |-> 5,
      segments |-> <<"a">> ],
    \* use a::{b::*, c};  the item is `b::*`
    [ text |-> <<"u","s","e"," ","a",":",":","{","b",":",":","*",","," ","c","}",";">>,
      item_lo |-> 8, item_hi |-> 12, path_lo |-> 8, path_hi |-> 9,
      segments |-> <<"a", "b">> ],
    \* use a::{b, *};  the item is `*`, its path span is empty
    [ text |-> <<"u","s","e"," ","a",":",":","{","b",","," ","*","}",";">>,
      item_lo |-> 11, item_hi |-> 12, path_lo |-> 11, path_hi |-> 11,
      segments |-> <<"a">> ] }

\* the names a glob can resolve to
NamePool == { <<"b">>, <<"a">>, <<"a","b">>, <<"B">> }

\* used_imports.iter(): the set in some order, every name once
NameOrders ==
  { q \in UNION { [1..n -> NamePool] : n \in 0..MaxNames } :
      \A i, j \in 1..Len(q) : i # j => q[i] # q[j] }

Range(q) == { q[i] : i \in 1..Len(q) }

\* private glob uses outside macros, with their source and the iteration
\* order of their resolved names
EmitItems ==
  { [ kind |-> "UseGlob", ident |-> NoIdent, vis |-> "Inherited", in_macro |-> FALSE,
      segments |-> src.segments, res |-> res, used_imports |-> Range(q),
      names_iter |-> q, src |-> src, src_available |-> av ] :
    src \in SourceCases, res \in Resolutions, q \in NameOrders, av \in BOOLEAN }

\* byte values of the characters of the names
CharCode(c) ==
  CASE c = "B" -> 66
    [] c = "a" -> 97
    [] c = "b" -> 98

\* Ord for str: byte-wise lexicographic
RECURSIVE StrLess(_, _)
StrLess(x, y) ==
  IF Len(y) = 0 THEN FALSE
  ELSE IF Len(x) = 0 THEN TRUE
  ELSE IF CharCode(x[1]) # CharCode(y[1]) THEN CharCode(x[1]) < CharCode(y[1])
  ELSE StrLess(Tail(x), Tail(y))

RECURSIVE InsertSorted(_, _)
InsertSorted(x, q) ==
  IF Len(q) = 0 THEN <<x>>
  ELSE IF StrLess(x, q[1]) THEN <<x>> \o q
  ELSE <<q[1]>> \o InsertSorted(x, Tail(q))

\* imports.sort()
RECURSIVE SortStrings(_)
SortStrings(q) ==
  IF Len(q) = 0 THEN << >> ELSE InsertSorted(q[1], SortStrings(Tail(q)))

\* imports.join(sep)
RECURSIVE Join(_, _)
Join(q, sep) ==
  IF Len(q) = 0 THEN << >>
  ELSE IF Len(q) = 1 THEN q[1]
  ELSE q[1] \o sep \o Join(Tail(q), sep)

\* the source text of lo..hi, when the source map has it
snippet_opt(item, lo, hi) ==
  IF item.src_available /\ 0 <= lo /\ lo <= hi /\ hi <= Len(item.src.text)
    THEN [some |-> TRUE, text |-> SubSeq(item.src.text, lo + 1, hi)]
    ELSE [some |-> FALSE, text |-> << >>]

\* snippet(cx, span, default)
snippet(item, lo, hi, default) ==
  IF snippet_opt(item, lo, hi).some THEN snippet_opt(item, lo, hi).text ELSE default

\* snippet_with_applicability(cx, span, default, &mut applicability), called
\* with applicability = MachineApplicable
snippet_with_applicability(item, lo, hi, default) ==
  IF snippet_opt(item, lo, hi).some
    THEN [text |-> snippet_opt(item, lo, hi).text, applicability |-> "MachineApplicable"]
    ELSE [text |-> default, applicability |-> "HasPlaceholders"]

EndsWith(text, c) == Len(text) > 0 /\ text[Len(text)] = c

\* variant: the braced form is taken from the empty path span
ReplacementSpan_by_span(item, import_source_snippet) ==
  IF item.src.path_lo = item.src.path_hi
    THEN [lo |-> item.src.path_lo, hi |-> item.src.path_hi + 1, braced_glob |-> TRUE]
    ELSE IF EndsWith(snippet(item, item.src.path_lo, item.src.item_hi, << >>), ";")
      THEN [lo |-> item.src.path_lo, hi |-> item.src.item_hi - 1, braced_glob |-> FALSE]
      ELSE [lo |-> item.src.path_lo, hi |-> item.src.item_hi, braced_glob |-> FALSE]

\* (span, braced_glob)
ReplacementSpan(item, import_source_snippet) ==
  IF import_source_snippet = << >>
    THEN [lo |-> item.src.path_lo, hi |-> item.src.path_hi + 1, braced_glob |-> TRUE]
    ELSE IF EndsWith(snippet(item, item.src.path_lo, item.src.item_hi, << >>), ";")
      THEN [lo |-> item.src.path_lo, hi |-> item.src.item_hi - 1, braced_glob |-> FALSE]
      ELSE [lo |-> item.src.path_lo, hi |-> item.src.item_hi, braced_glob |-> FALSE]

\* variant: the names are joined in iteration order
ImportsString_unsorted(names_iter, braced_glob) ==
  IF Len(names_iter) = 1 THEN names_iter[1]
  ELSE IF braced_glob THEN Join(names_iter, <<",", " ">>)
  ELSE <<"{">> \o Join(names_iter, <<",", " ">>) \o <<"}">>

\* imports_string
ImportsString(names_iter, braced_glob) ==
  IF Len(names_iter) = 1 THEN names_iter[1]
  ELSE IF braced_glob THEN Join(SortStrings(names_iter), <<",", " ">>)
  ELSE <<"{">> \o Join(SortStrings(names_iter), <<",", " ">>) \o <<"}">>

\* sugg
Sugg(import_source_snippet, imports_string, braced_glob) ==
  IF braced_glob THEN imports_string
  ELSE import_source_snippet \o <<":", ":">> \o imports_string

\* the locals of the `then` block that the suggestion is built from
Locals(item) ==
  LET sn == snippet_with_applicability(item, item.src.path_lo, item.src.path_hi, <<".", ".">>)
      sp == ReplacementSpan(item, sn.text)
  IN [ import_source_snippet |-> sn.text, applicability |-> sn.applicability,
       span |-> [lo |-> sp.lo, hi |-> sp.hi], braced_glob |-> sp.braced_glob,
       imports_string |-> ImportsString(item.names_iter, sp.braced_glob) ]

\* the arguments of span_lint_and_sugg
FullDiag(item) ==
  LET l == Locals(item) IN
  [ lint |-> LintFor(item.res).lint, span |-> l.span,
    message |-> LintFor(item.res).message, help |-> "try",
    sugg |-> Sugg(l.import_source_snippet, l.imports_string, l.braced_glob),
    applicability |-> l.applicability ]

\* everything one check_item call hands to span_lint_and_sugg
FullDiagsOfEnter(item, warn, deep) ==
  IF SkipsItem(item) THEN << >>
  ELSE IF ChainHolds(item, warn, DeepAfterEnter(item, deep))
    THEN << FullDiag(item) >>
    ELSE << >>

InitEmit ==
  /\ warn_on_all \in BOOLEAN
  /\ is_test_module_flag = FALSE
  /\ test_modules_deep = 0
  /\ stack = << >>
  /\ \E item \in EmitItems :
       last = [hook |-> "none", item |-> item, pre_deep |-> 0, pre_flag |-> FALSE,
               diags |-> << >>]

\* check_item on the glob use that the visitor reaches first
check_item_glob ==
  /\ last.hook = "none"
  /\ IF SkipsItem(last.item)
       THEN UNCHANGED <<is_test_module_flag, test_modules_deep>>
       ELSE /\ is_test_module_flag' = FlagAfterEnter(last.item, is_test_module_flag)
            /\ test_modules_deep' = DeepAfterEnter(last.item, test_modules_deep)
  /\ last' = [hook |-> "check_item", item |-> last.item,
              pre_deep |-> test_modules_deep, pre_flag |-> is_test_module_flag,
              diags |-> FullDiagsOfEnter(last.item, warn_on_all, test_modules_deep)]
  /\ stack' = Append(stack, Frame(last.item))
  /\ UNCHANGED warn_on_all

NextEmit == check_item_glob

SpecEmit == InitEmit /\ [][NextEmit]_vars

(* ---------------- properties ---------------- *)

\* vocabulary of the properties, written from the item's fields alone
IsEnter == last.hook = "check_item"
IsLeave == last.hook = "check_item_post"
IsGlob == last.item.kind = "UseGlob"
IsPrivate == last.item.vis = "Inherited"
HasNames == last.item.used_imports # {}
PathIsSuper == last.item.segments = <<"super">>
LastSegIsPrelude ==
  /\ Len(last.item.segments) >= 1
  /\ last.item.segments[Len(last.item.segments)] = "prelude"
Emitted == Len(last.diags)
\* a private, macro-free glob use with resolved names
Candidate == IsEnter /\ IsGlob /\ IsPrivate /\ ~last.item.in_macro /\ HasNames
\* some enclosing open declaration has "test" in its identifier
InsideTestDecl ==
  \E i \in 1..(Len(stack) - 1) : Contains(stack[i].ident, TestStr)

AllEnclosingPrivate ==
  \A i \in 1..(Len(stack) - 1) : stack[i].vis = "Inherited"

\* C1: once every entered declaration has been left again (the traversal is
\* balanced and complete), test_modules_deep is 0 and is_test_module is false.
C1_DepthZeroAfterTraversal ==
  stack = << >> => (test_modules_deep = 0 /\ ~is_test_module_flag)

\* C2: with warn_on_all = false, a private macro-free glob use of the path
\* `super` with resolved names gets no diagnostic if and only if some
\* enclosing open declaration has "test" in its identifier.  Stated for the
\* traversals in which every enclosing declaration is private, so that each
\* of them went through the tracker update of check_item.
C2_SuperExemptIffInsideTest ==
  (~warn_on_all /\ Candidate /\ PathIsSuper /\ AllEnclosingPrivate)
    => ((Emitted = 0) <=> InsideTestDecl)

\* C3: a check_item call emits exactly one diagnostic when the item is
\* private, not from a macro, a glob use, not exempt (or warn_on_all is set)
\* and has resolved names, and none otherwise; check_item_post emits none.
C3_OneDiagnosticIffReportable ==
  /\ IsEnter =>
       Emitted = IF /\ Candidate
                    /\ \/ warn_on_all
                       \/ ~(LastSegIsPrelude \/ (PathIsSuper /\ test_modules_deep > 0))
                  THEN 1 ELSE 0
  /\ IsLeave => Emitted = 0

C3_Witness ==
  /\ Candidate /\ Emitted = 1 /\ ~warn_on_all
  /\ last.item.segments = <<"a">>

\* C4: for a glob use that would otherwise be reported and is no prelude
\* import, no diagnostic is emitted if and only if the path is the single
\* segment `super`, test_modules_deep was > 0 when check_item was called and
\* warn_on_all is false.
C4_SuperExemptionIff ==
  (Candidate /\ ~LastSegIsPrelude)
    => ((Emitted = 0) <=> (PathIsSuper /\ last.pre_deep > 0 /\ ~warn_on_all))

C4_Witness ==
  /\ Candidate /\ ~warn_on_all /\ last.pre_deep > 0
  /\ last.item.segments = <<"super", "a">>
  /\ Emitted = 1

\* C5: with warn_on_all = false a glob use whose last segment is "prelude"
\* gets no diagnostic; with warn_on_all = true such a use, when private,
\* macro-free and with resolved names, gets one.
C5_PreludeExemption ==
  (IsEnter /\ IsGlob /\ LastSegIsPrelude)
    => /\ ~warn_on_all => Emitted = 0
       /\ (warn_on_all /\ Candidate) => Emitted = 1

C5_Witness ==
  /\ Candidate /\ ~warn_on_all /\ Emitted = 0
  /\ last.item.segments = <<"a", "prelude">>
  /\ test_modules_deep = 0

\* C6: with warn_on_all = true, a second call of check_item on the same
\* declaration with any other path and any other counter value emits a
\* diagnostic exactly when the observed call did.
C6_WarnOnAllIgnoresPathAndTracker ==
  (warn_on_all /\ IsEnter /\ IsGlob)
    => \A segs \in Paths, d \in 0..MaxDeep :
         (DiagsOfEnter([last.item EXCEPT !.segments = segs], TRUE, d) # << >>)
           <=> (Emitted # 0)

C6_Witness ==
  /\ warn_on_all /\ Candidate /\ Emitted = 1
  /\ PathIsSuper /\ test_modules_deep > 0

\* C7: every emitted diagnostic carries ENUM_GLOB_USE when the path resolves
\* to an enum definition and WILDCARD_IMPORTS for every other resolution.
C7_LintCategory ==
  \A i \in 1..Len(last.diags) :
    last.diags[i].lint =
      IF last.item.res = [tag |-> "Def", kind |-> "Enum"]
        THEN "ENUM_GLOB_USE" ELSE "WILDCARD_IMPORTS"

C7_Witness ==
  /\ IsEnter /\ Emitted = 1
  /\ last.item.res = [tag |-> "Def", kind |-> "Mod"]
  /\ last.diags[1].lint = "WILDCARD_IMPORTS"

\* C8: with warn_on_all = false, when check_item has just run on a private
\* declaration whose identifier contains "test" and the next call is
\* check_item on a glob use of the path `super`, that call emits nothing.
C8_SuperFirstInTestModule ==
  [][ ( /\ ~warn_on_all
        /\ IsEnter /\ IsPrivate /\ Contains(last.item.ident, TestStr)
        /\ last'.hook = "check_item"
        /\ last'.item.kind = "UseGlob"
        /\ last'.item.segments = <<"super">> )
      => last'.diags = << >> ]_vars

C8_Witness ==
  /\ ~warn_on_all /\ Candidate /\ PathIsSuper /\ Emitted = 0
  /\ Len(stack) = 2
  /\ stack[1].vis = "Inherited" /\ Contains(stack[1].ident, TestStr)
  /\ last.pre_flag /\ last.pre_deep = 1

\* C9: check_item on a public or restricted-public declaration emits nothing.
C9_PublicNeverReported ==
  (IsEnter /\ last.item.vis \in {"Public", "Restricted"}) => Emitted = 0

C9_Witness ==
  /\ IsEnter /\ IsGlob /\ HasNames /\ ~last.item.in_macro
  /\ last.item.vis = "Restricted" /\ warn_on_all
  /\ Emitted = 0

\* C10: a glob use whose resolved-name set is empty gets no diagnostic.
C10_EmptyNamesSilent ==
  (IsEnter /\ IsGlob /\ ~HasNames) => Emitted = 0

C10_Witness ==
  /\ IsEnter /\ IsGlob /\ ~HasNames /\ IsPrivate /\ ~last.item.in_macro
  /\ warn_on_all /\ Emitted = 0

\* the tracker as check_item found it
TrackerUnchanged ==
  test_modules_deep = last.pre_deep /\ is_test_module_flag = last.pre_flag
TrackerRaised ==
  test_modules_deep = last.pre_deep + 1 /\ is_test_module_flag

\* C11: a declaration that comes from a macro expansion gets no diagnostic,
\* also when it is a private glob use with resolved names and warn_on_all
\* is set.
C11_MacroSilent ==
  (IsEnter /\ last.item.in_macro) => Emitted = 0

C11_Witness ==
  /\ IsEnter /\ IsGlob /\ IsPrivate /\ HasNames /\ last.item.in_macro
  /\ warn_on_all /\ Emitted = 0
  /\ last.item.segments = <<"a">>

\* C14: check_item_post clears is_test_module only when the counter returns
\* to 0: after a call that found the flag set and leaves test_modules_deep
\* above 0, the flag is still set.
C14_FlagKeptWhileDeepPositive ==
  (IsLeave /\ last.pre_flag /\ test_modules_deep > 0) => is_test_module_flag

\* C15: check_item_post on a declaration whose check_item did not touch the
\* tracker (no "test" in the identifier, or the early return for a public
\* one) changes neither test_modules_deep nor is_test_module.
C15_LeaveOfUntrackedIsNoOp ==
  [][ ( /\ last'.hook = "check_item_post"
        /\ Len(stack') < Len(stack)
        /\ \/ ~Contains(stack[Len(stack)].ident, TestStr)
           \/ stack[Len(stack)].vis # "Inherited" )
      => UNCHANGED <<is_test_module_flag, test_modules_deep>> ]_vars

\* C16 as stated: check_item on a declaration whose identifier contains
\* "test", of any kind and any visibility, adds 1 to test_modules_deep and
\* sets is_test_module; on any other declaration it changes neither.
C16_TrackerOnEnterAnyVisibility ==
  IsEnter =>
    IF Contains(last.item.ident, TestStr) THEN TrackerRaised ELSE TrackerUnchanged

\* C16 amended: the same for the private declarations; check_item on a
\* public or restricted-public declaration changes neither field, whatever
\* its identifier.
C16_TrackerOnEnter ==
  IsEnter =>
    IF IsPrivate /\ Contains(last.item.ident, TestStr)
      THEN TrackerRaised ELSE TrackerUnchanged

C16_Witness ==
  /\ IsEnter /\ IsPrivate /\ last.item.kind = "UseSingle"
  /\ last.item.ident = <<"l","a","t","e","s","t">>
  /\ last.pre_deep = 1 /\ test_modules_deep = 2 /\ is_test_module_flag

\* C20: the tracker update of check_item comes after the visibility test and
\* before the in_macro test: a private macro-originated declaration with
\* "test" in its identifier raises the counter and sets the flag, a public
\* one with such an identifier changes neither.
C20_TrackerBetweenVisibilityAndMacro ==
  /\ (IsEnter /\ IsPrivate /\ last.item.in_macro /\ Contains(last.item.ident, TestStr))
       => TrackerRaised
  /\ (IsEnter /\ last.item.vis = "Public" /\ Contains(last.item.ident, TestStr))
       => TrackerUnchanged

C20_Witness ==
  /\ IsEnter /\ IsPrivate /\ last.item.in_macro /\ last.item.kind = "Mod"
  /\ Contains(last.item.ident, TestStr)
  /\ last.pre_deep = 0 /\ test_modules_deep = 1 /\ is_test_module_flag

\* C12: under any sequence of check_item and check_item_post calls the
\* counter is never negative: check_item_post never decrements it at 0.
C12_DeepNeverNegative ==
  /\ test_modules_deep >= 0
  /\ (IsLeave /\ test_modules_deep # last.pre_deep) => last.pre_deep >= 1

\* a check_item_post that follows the skipped check_item of a public item
\* named like a test, or no check_item at all, at depth 0
C12_Witness ==
  /\ IsLeave /\ last.pre_deep = 0 /\ ~last.pre_flag
  /\ test_modules_deep = 0

\* C19: in every reachable state, under any sequence of check_item and
\* check_item_post calls, is_test_module implies test_modules_deep >= 1.
C19_FlagImpliesDeepPositive ==
  is_test_module_flag => test_modules_deep >= 1

C19_Witness ==
  /\ IsEnter /\ is_test_module_flag /\ ~last.pre_flag
  /\ last.pre_deep = 1 /\ test_modules_deep = 2

\* vocabulary for the emitted suggestion
TheDiag == last.diags[1]
TheLocals == Locals(last.item)
TheSrc == last.item.src
EmittedOne == IsEnter /\ Emitted = 1
DotDot == <<".", ".">>

\* position of the first ", " in text, 0 when there is none
FirstSep(text) ==
  LET at == { i \in 1..(Len(text) - 1) : text[i] = "," /\ text[i + 1] = " " }
  IN IF at = {} THEN 0 ELSE CHOOSE i \in at : \A j \in at : i <= j

\* the list that a ", "-separated text spells
RECURSIVE SplitList(_)
SplitList(text) ==
  IF FirstSep(text) = 0 THEN <<text>>
  ELSE <<SubSeq(text, 1, FirstSep(text) - 1)>>
         \o SplitList(SubSeq(text, FirstSep(text) + 2, Len(text)))

StartsWith(text, pre) ==
  Len(text) >= Len(pre) /\ SubSeq(text, 1, Len(pre)) = pre

\* the suggestion without the `path::` that the non-braced form puts in front
SuggBody ==
  IF TheLocals.braced_glob THEN TheDiag.sugg
  ELSE SubSeq(TheDiag.sugg, Len(TheLocals.import_source_snippet) + 3, Len(TheDiag.sugg))

\* C13: the replacement text spells exactly the resolved names, each once: one
\* name verbatim; several in ascending order separated by ", ", whatever the
\* iteration order; the non-braced form wraps several names in braces and
\* puts the path snippet and "::" in front, the braced form adds neither.
C13_ReplacementText ==
  EmittedOne =>
    /\ ~TheLocals.braced_glob =>
         StartsWith(TheDiag.sugg, TheLocals.import_source_snippet \o <<":", ":">>)
    /\ IF Cardinality(last.item.used_imports) = 1
         THEN SuggBody \in last.item.used_imports
         ELSE LET inner == IF TheLocals.braced_glob THEN SuggBody
                           ELSE SubSeq(SuggBody, 2, Len(SuggBody) - 1)
                  names == SplitList(inner)
              IN /\ ~TheLocals.braced_glob =>
                      (SuggBody[1] = "{" /\ SuggBody[Len(SuggBody)] = "}")
                 /\ Len(names) = Cardinality(last.item.used_imports)
                 /\ Range(names) = last.item.used_imports
                 /\ \A i \in 1..(Len(names) - 1) : StrLess(names[i], names[i + 1])

C13_Witness ==
  /\ EmittedOne /\ last.item.src_available
  /\ last.item.names_iter = << <<"b">>, <<"a","b">>, <<"B">> >>
  /\ TheSrc.path_lo = 4 /\ TheSrc.path_hi = 5
  /\ TheDiag.sugg = <<"a",":",":","{","B",","," ","a","b",","," ","b","}">>

\* C17: the replacement span starts at the start of the path span; with an
\* empty path snippet it ends one byte after the path span and the form is
\* braced; otherwise the form is non-braced and the span ends at the end of
\* the item, or one byte before it when the text from the path to the end of
\* the item ends with ';'.  The span never ends with the ';' and satisfies
\* start <= end <= end of the item.
C17_ReplacementSpan ==
  EmittedOne =>
    /\ TheDiag.span.lo = TheSrc.path_lo
    /\ IF TheLocals.import_source_snippet = << >>
         THEN TheDiag.span.hi = TheSrc.path_hi + 1 /\ TheLocals.braced_glob
         ELSE /\ ~TheLocals.braced_glob
              /\ TheDiag.span.hi =
                   IF TheSrc.text[TheSrc.item_hi] = ";"
                     THEN TheSrc.item_hi - 1 ELSE TheSrc.item_hi
    /\ TheDiag.span.hi > TheDiag.span.lo => TheSrc.text[TheDiag.span.hi] # ";"
    /\ TheDiag.span.lo <= TheDiag.span.hi
    /\ TheDiag.span.hi <= TheSrc.item_hi

\* C18: when the text of the path span cannot be retrieved the diagnostic is
\* emitted all the same, with the snippet "..", in the non-braced form and
\* with an applicability below MachineApplicable; when it is retrieved the
\* applicability is MachineApplicable.
C18_PlaceholderSnippet ==
  /\ (IsEnter /\ ~last.item.src_available /\ last.item.used_imports # {})
       => /\ Emitted = 1
          /\ TheLocals.import_source_snippet = DotDot
          /\ ~TheLocals.braced_glob
          /\ StartsWith(TheDiag.sugg, DotDot \o <<":", ":">>)
          /\ TheDiag.applicability # "MachineApplicable"
  /\ (EmittedOne /\ last.item.src_available)
       => TheDiag.applicability = "MachineApplicable"

C18_Witness ==
  /\ EmittedOne /\ ~last.item.src_available
  /\ TheSrc.path_lo = TheSrc.path_hi
  /\ last.item.names_iter = << <<"a">> >>
  /\ TheDiag.sugg = <<".", ".", ":", ":", "a">>
  /\ TheDiag.applicability = "HasPlaceholders"
====
